---------------------------- MODULE Spec2Model ----------------------------
(***************************************************************************)
(* HF2 packet framing and command/response codec (crate hftwo).            *)
(*                                                                         *)
(* A byte slice is a sequence of numbers 0..255; Rust index i is TLA+      *)
(* index i+1.  A constructor yields [ok, buf, view]: ok = FALSE is a       *)
(* panic (failed assert! or slice bound check), buf is the caller's        *)
(* buffer afterwards and view the bytes the returned struct borrows.  An   *)
(* accessor yields [ok |-> TRUE, val |-> x] or [ok |-> FALSE] (a panic).   *)
(***************************************************************************)
EXTENDS Integers, Sequences, FiniteSets, TLC

VARIABLES
    pc,      \* "call", "converted", "encoded", "decoded", "panicked", "done"
    api,     \* the entry point the caller exercises
    args,    \* the arguments of the call
    buf0,    \* the caller's buffer on entry
    buf,     \* the caller's buffer now
    made,    \* what the view returned by new() reports
    parsed,  \* what the view returned by from_bytes() reports
    conv     \* the results of the enum conversions from() and into()

vars == <<pc, api, args, buf0, buf, made, parsed, conv>>

-----------------------------------------------------------------------------
(* Bounds of the checked inputs. *)

\* raw command ids 0..MaxCommandRaw are all tried (plus SampleU32)
MaxCommandRaw == 20
\* command data of 0..MaxDataLen bytes
MaxDataLen == 3
\* packet payloads of 0..MaxPayloadLen bytes (one more than Packet accepts)
MaxPayloadLen == 64
\* frames and packet buffers of 0..MaxFrameLen bytes (more than 64)
MaxFrameLen == 66
\* destination buffers differ from the exact size by up to MaxSlack bytes
MaxSlack == 2

-----------------------------------------------------------------------------
(* Integer helpers: Rust's bit operators and byte conversions. *)

RECURSIVE BitAnd(_, _)
BitAnd(a, b) ==
    IF a = 0 \/ b = 0 THEN 0
    ELSE (IF a % 2 = 1 /\ b % 2 = 1 THEN 1 ELSE 0) + 2 * BitAnd(a \div 2, b \div 2)

RECURSIVE BitOr(_, _)
BitOr(a, b) ==
    IF a = 0 THEN b
    ELSE IF b = 0 THEN a
    ELSE (IF a % 2 = 1 \/ b % 2 = 1 THEN 1 ELSE 0) + 2 * BitOr(a \div 2, b \div 2)

\* `x as u8`
AsU8(x) == x % 256

\* u16::to_le_bytes
U16ToLe(v) == << v % 256, (v \div 256) % 256 >>

\* u16::from_le_bytes
U16FromLe(b) == b[1] + 256 * b[2]

\* u32::to_le_bytes
U32ToLe(v) ==
    << v % 256, (v \div 256) % 256, (v \div 65536) % 256, (v \div 16777216) % 256 >>

\* u32::from_le_bytes
U32FromLe(b) == b[1] + 256 * b[2] + 65536 * b[3] + 16777216 * b[4]

-----------------------------------------------------------------------------
(* Results and slices. *)

Val(x) == [ok |-> TRUE, val |-> x]

Fail == [ok |-> FALSE]

Ok(b, v) == [ok |-> TRUE, buf |-> b, view |-> v]

\* a panic before anything was written: the buffer is as it was
Panic(b) == [ok |-> FALSE, buf |-> b, view |-> << >>]

\* s[a..b], bound-checked
Slice(s, a, b) ==
    IF a <= b /\ b <= Len(s) THEN Val(SubSeq(s, a + 1, b)) ELSE Fail

\* s[i], bound-checked
Index(s, i) == IF i < Len(s) THEN Val(s[i + 1]) ELSE Fail

\* b[off..off + data.len()].copy_from_slice(data)
CopyInto(b, off, data) ==
    [i \in 1..Len(b) |->
        IF i > off /\ i <= off + Len(data) THEN data[i - off] ELSE b[i]]

-----------------------------------------------------------------------------
(* lib.rs: PacketKind and Packet. *)

PacketKinds == {"CommandInner", "CommandFinal", "StdOut", "StdErr"}

\* `kind as u8`: the enum's discriminant
KindTag(kind) ==
    CASE kind = "CommandInner" -> 0
      [] kind = "CommandFinal" -> 64
      [] kind = "StdOut" -> 128
      [] kind = "StdErr" -> 192

PacketKind_from(value) ==
    LET m == BitAnd(value, 192) IN
    CASE m = 0 -> "CommandInner"
      [] m = 64 -> "CommandFinal"
      [] m = 128 -> "StdOut"
      [] m = 192 -> "StdErr"

Packet_MAX_LEN == 63

\* Packet_new without `buf[0] = 0`: the header keeps the buffer's old bits
Packet_new_noclear(b, kind, data) ==
    IF ~(Len(data) <= 63) THEN Panic(b)
    ELSE IF ~(Len(b) >= Len(data) + 1) THEN Panic(b)
    ELSE LET b1 == CopyInto(b, 1, data)
             b3 == [b1 EXCEPT ![1] = BitOr(@, AsU8(Len(data)))]
             b4 == [b3 EXCEPT ![1] = BitOr(@, KindTag(kind))]
         IN  Ok(b4, b4)

Packet_new(b, kind, data) ==
    IF ~(Len(data) <= 63) THEN Panic(b)
    ELSE IF ~(Len(b) >= Len(data) + 1) THEN Panic(b)
    ELSE LET b1 == CopyInto(b, 1, data)
             b2 == [b1 EXCEPT ![1] = 0]
             b3 == [b2 EXCEPT ![1] = BitOr(@, AsU8(Len(data)))]
             b4 == [b3 EXCEPT ![1] = BitOr(@, KindTag(kind))]
         IN  Ok(b4, b4)

\* Packet_from_bytes keeping the whole frame instead of buf[0..len]
Packet_from_bytes_whole(b) ==
    IF ~(Len(b) > 0) THEN Panic(b)
    ELSE IF ~(Len(b) <= 64) THEN Panic(b)
    ELSE Ok(b, b)

Packet_from_bytes(b) ==
    IF ~(Len(b) > 0) THEN Panic(b)
    ELSE IF ~(Len(b) <= 64) THEN Panic(b)
    ELSE LET len == BitAnd(b[1], 63) + 1
             s == Slice(b, 0, len)
         IN  IF s.ok THEN Ok(b, s.val) ELSE Panic(b)

\* Packet_len without the header byte: the payload length
Packet_len_payload(v) ==
    LET h == Index(v, 0) IN
    IF h.ok THEN Val(BitAnd(h.val, 63)) ELSE Fail

Packet_len(v) ==
    LET h == Index(v, 0) IN
    IF h.ok THEN Val(BitAnd(h.val, 63) + 1) ELSE Fail

Packet_kind(v) ==
    LET h == Index(v, 0) IN
    IF h.ok THEN Val(PacketKind_from(h.val)) ELSE Fail

Packet_data(v) ==
    LET n == Packet_len(v) IN
    IF n.ok THEN Slice(v, 1, n.val) ELSE Fail

\* the frames of the crate's unit tests
TEST_PACKET ==
    { << 131, 1, 2, 3, 171, 255, 255, 255 >>,
      << 133, 4, 5, 6, 7, 8 >>,
      << 128, 222, 66, 66, 66, 66, 255, 255 >>,
      << 208, 9, 10, 11, 12, 13, 14, 15, 16, 17, 18, 19, 20, 21, 22, 23, 255, 255, 255 >> }

-----------------------------------------------------------------------------
(* command.rs: Command. *)

BinInfo == [variant |-> "BinInfo"]

Info == [variant |-> "Info"]

ResetIntoApp == [variant |-> "ResetIntoApp"]

ResetIntoBootloader == [variant |-> "ResetIntoBootloader"]

StartFlash == [variant |-> "StartFlash"]

WriteFlashPage == [variant |-> "WriteFlashPage"]

ChecksumPages == [variant |-> "ChecksumPages"]

ReadWords == [variant |-> "ReadWords"]

WriteWords == [variant |-> "WriteWords"]

Dmesg == [variant |-> "Dmesg"]

Other(value) == [variant |-> "Other", value |-> value]

NamedCommands ==
    { BinInfo, Info, ResetIntoApp, ResetIntoBootloader, StartFlash,
      WriteFlashPage, ChecksumPages, ReadWords, WriteWords, Dmesg }

Command_from(value) ==
    CASE value = 1 -> BinInfo
      [] value = 2 -> Info
      [] value = 3 -> ResetIntoApp
      [] value = 4 -> ResetIntoBootloader
      [] value = 5 -> StartFlash
      [] value = 6 -> WriteFlashPage
      [] value = 7 -> ReadWords
      [] value = 8 -> WriteWords
      [] value = 16 -> Dmesg
      [] OTHER -> Other(value)

Command_into(self) ==
    CASE self.variant = "BinInfo" -> 1
      [] self.variant = "Info" -> 2
      [] self.variant = "ResetIntoApp" -> 3
      [] self.variant = "ResetIntoBootloader" -> 4
      [] self.variant = "StartFlash" -> 5
      [] self.variant = "WriteFlashPage" -> 6
      [] self.variant = "ChecksumPages" -> 7
      [] self.variant = "ReadWords" -> 8
      [] self.variant = "WriteWords" -> 9
      [] self.variant = "Dmesg" -> 16
      [] self.variant = "Other" -> self.value

-----------------------------------------------------------------------------
(* command.rs: Request. *)

Request_HEADER_LEN == 8

\* Request_new without its assert!: the slice operations fail instead, the
\* last of them after the header was written
Request_new_late_check(b, command, tag, data) ==
    IF Len(b) < 6 THEN Panic(b)
    ELSE LET cmd == Command_into(command)
             b1 == CopyInto(b, 0, U32ToLe(cmd))
             b2 == CopyInto(b1, 4, U16ToLe(tag))
             b3 == CopyInto(b2, 8, data)
         IN  IF Len(b) < 8 \/ Len(b) - 8 # Len(data)
             THEN [ok |-> FALSE, buf |-> b2, view |-> << >>]
             ELSE Ok(b3, b3)

Request_new(b, command, tag, data) ==
    IF ~(Len(b) = Len(data) + Request_HEADER_LEN) THEN Panic(b)
    ELSE LET cmd == Command_into(command)
             b1 == CopyInto(b, 0, U32ToLe(cmd))
             b2 == CopyInto(b1, 4, U16ToLe(tag))
             b3 == CopyInto(b2, 8, data)
         IN  Ok(b3, b3)

\* Request_from_bytes checking against the Response header's length
Request_from_bytes_hdr4(b) ==
    IF ~(Len(b) >= 4) THEN Panic(b) ELSE Ok(b, b)

Request_from_bytes(b) ==
    IF ~(Len(b) >= Request_HEADER_LEN) THEN Panic(b) ELSE Ok(b, b)

\* usize subtraction: an underflow panics (debug build)
Request_len(v) ==
    IF Len(v) >= Request_HEADER_LEN THEN Val(Len(v) - Request_HEADER_LEN) ELSE Fail

Request_command(v) ==
    LET bytes == Slice(v, 0, 4) IN
    IF bytes.ok THEN Val(Command_from(U32FromLe(bytes.val))) ELSE Fail

Request_tag(v) ==
    LET bytes == Slice(v, 4, 6) IN
    IF bytes.ok THEN Val(U16FromLe(bytes.val)) ELSE Fail

Request_data(v) == Slice(v, 8, Len(v))

-----------------------------------------------------------------------------
(* command.rs: Status. *)

Sucess == [variant |-> "Sucess"]

Unknown == [variant |-> "Unknown"]

Error == [variant |-> "Error"]

NamedStatuses == { Sucess, Unknown, Error }

\* Status_from with the arm of one code missing
Status_from_shifted(value) ==
    CASE value = 0 -> Sucess
      [] value = 1 -> Error
      [] OTHER -> Other(value)

Status_from(value) ==
    CASE value = 0 -> Sucess
      [] value = 1 -> Unknown
      [] value = 2 -> Error
      [] OTHER -> Other(value)

Status_into(self) ==
    CASE self.variant = "Sucess" -> 0
      [] self.variant = "Unknown" -> 1
      [] self.variant = "Error" -> 2
      [] self.variant = "Other" -> self.value

-----------------------------------------------------------------------------
(* command.rs: Response. *)

Response_HEADER_LEN == 4

\* Response_new writing the tag in big-endian
Response_new_be(b, tag, status, status_info, data) ==
    IF ~(Len(b) = Len(data) + 4) THEN Panic(b)
    ELSE LET b1 == CopyInto(b, 0, << (tag \div 256) % 256, tag % 256 >>)
             b2 == [b1 EXCEPT ![3] = Status_into(status)]
             b3 == [b2 EXCEPT ![4] = status_info]
             b4 == CopyInto(b3, 4, data)
         IN  Ok(b4, b4)

Response_new(b, tag, status, status_info, data) ==
    IF ~(Len(b) = Len(data) + Response_HEADER_LEN) THEN Panic(b)
    ELSE LET b1 == CopyInto(b, 0, U16ToLe(tag))
             b2 == [b1 EXCEPT ![3] = Status_into(status)]
             b3 == [b2 EXCEPT ![4] = status_info]
             b4 == CopyInto(b3, Response_HEADER_LEN, data)
         IN  Ok(b4, b4)

Response_from_bytes(b) ==
    IF ~(Len(b) >= Response_HEADER_LEN) THEN Panic(b) ELSE Ok(b, b)

Response_tag(v) ==
    LET bytes == Slice(v, 0, 2) IN
    IF bytes.ok THEN Val(U16FromLe(bytes.val)) ELSE Fail

Response_status(v) ==
    LET s == Index(v, 2) IN
    IF s.ok THEN Val(Status_from(s.val)) ELSE Fail

Response_status_info(v) == Index(v, 3)

Response_data(v) == Slice(v, Response_HEADER_LEN, Len(v))

-----------------------------------------------------------------------------
(* What a caller can observe of a view: the view and every accessor. *)

NoView == [ok |-> FALSE]

NoConv == [done |-> 0]

PacketFields(v) ==
    [ok |-> TRUE, view |-> v,
     kind |-> Packet_kind(v), data |-> Packet_data(v), len |-> Packet_len(v)]

RequestFields(v) ==
    [ok |-> TRUE, view |-> v,
     command |-> Request_command(v), tag |-> Request_tag(v),
     data |-> Request_data(v), len |-> Request_len(v)]

ResponseFields(v) ==
    [ok |-> TRUE, view |-> v,
     tag |-> Response_tag(v), status |-> Response_status(v),
     status_info |-> Response_status_info(v), data |-> Response_data(v)]

-----------------------------------------------------------------------------
(* The inputs tried. *)

\* n bytes: pat[1], pat[1] + pat[2], pat[1] + 2 * pat[2], ... (mod 256)
Gen(n, pat) == [i \in 1..n |-> (pat[1] + (i - 1) * pat[2]) % 256]

DataPatterns == { <<1, 1>>, <<170, 17>> }

BufPatterns == { <<0, 0>>, <<165, 3>> }

\* TLC's integers are 32-bit signed: the u32 values tried stay below 2^31
SampleU32 == { 255, 256, 65536, 123456, 16777216, 2147483647 }

CommandRaws == (0..MaxCommandRaw) \cup SampleU32

Commands == NamedCommands \cup { Other(v) : v \in CommandRaws }

Tags == { 0, 5, 4660, 65535 }

StatusRaws == { 0, 1, 2, 3, 127, 255 }

Statuses == NamedStatuses \cup { Other(v) : v \in StatusRaws }

StatusInfos == { 0, 7, 255 }

\* destination sizes around the exact one
Sizes(exact) == { n \in (exact - MaxSlack)..(exact + MaxSlack) : n >= 0 }

InitCommand ==
    /\ api = "Command"
    /\ \E v \in CommandRaws : args = [raw |-> v]
    /\ buf0 = << >>

InitStatus ==
    /\ api = "Status"
    /\ \E v \in 0..255 : args = [raw |-> v]
    /\ buf0 = << >>

InitPacketNew ==
    /\ api = "Packet::new"
    /\ \E kind \in PacketKinds, n \in 0..MaxPayloadLen, dp \in DataPatterns :
          args = [kind |-> kind, data |-> Gen(n, dp)]
    /\ \E m \in Sizes(Len(args.data) + 1) \cup {64, MaxFrameLen}, bp \in BufPatterns :
          buf0 = Gen(m, bp)

InitPacketFromBytes ==
    /\ api = "Packet::from_bytes"
    /\ args = [none |-> TRUE]
    /\ \/ \E h \in 0..255, m \in 0..MaxFrameLen :
             buf0 = SubSeq(<<h>> \o Gen(MaxFrameLen, <<1, 1>>), 1, m)
       \/ buf0 \in TEST_PACKET

InitRequestNew ==
    /\ api = "Request::new"
    /\ \E c \in Commands, t \in Tags, n \in 0..MaxDataLen, dp \in DataPatterns :
          args = [command |-> c, tag |-> t, data |-> Gen(n, dp)]
    /\ \E m \in Sizes(Len(args.data) + 8), bp \in BufPatterns : buf0 = Gen(m, bp)

InitRequestFromBytes ==
    /\ api = "Request::from_bytes"
    /\ args = [none |-> TRUE]
    /\ \E v \in CommandRaws, t \in Tags, dp \in DataPatterns, m \in 0..(8 + MaxDataLen) :
          buf0 = SubSeq(U32ToLe(v) \o U16ToLe(t) \o Gen(2 + MaxDataLen, dp), 1, m)

InitResponseNew ==
    /\ api = "Response::new"
    /\ \E t \in Tags, st \in Statuses, si \in StatusInfos,
          n \in 0..MaxDataLen, dp \in DataPatterns :
          args = [tag |-> t, status |-> st, status_info |-> si, data |-> Gen(n, dp)]
    /\ \E m \in Sizes(Len(args.data) + 4), bp \in BufPatterns : buf0 = Gen(m, bp)

InitResponseFromBytes ==
    /\ api = "Response::from_bytes"
    /\ args = [none |-> TRUE]
    /\ \E t \in Tags, s \in StatusRaws, si \in StatusInfos, dp \in DataPatterns,
          m \in 0..(4 + MaxDataLen) :
          buf0 = SubSeq(U16ToLe(t) \o <<s, si>> \o Gen(MaxDataLen, dp), 1, m)

Init ==
    /\ pc = "call"
    /\ \/ InitCommand
       \/ InitStatus
       \/ InitPacketNew
       \/ InitPacketFromBytes
       \/ InitRequestNew
       \/ InitRequestFromBytes
       \/ InitResponseNew
       \/ InitResponseFromBytes
    /\ buf = buf0
    /\ made = NoView
    /\ parsed = NoView
    /\ conv = NoConv

-----------------------------------------------------------------------------
(* The calls. *)

\* Command::from(raw)
CommandFrom ==
    /\ pc = "call" /\ api = "Command"
    /\ conv' = [done |-> 1, variant |-> Command_from(args.raw)]
    /\ pc' = "converted"
    /\ UNCHANGED <<api, args, buf0, buf, made, parsed>>

\* command.into()
CommandInto ==
    /\ pc = "converted" /\ api = "Command"
    /\ conv' = [done |-> 2, variant |-> conv.variant, raw |-> Command_into(conv.variant)]
    /\ pc' = "done"
    /\ UNCHANGED <<api, args, buf0, buf, made, parsed>>

\* Status::from(raw)
StatusFrom ==
    /\ pc = "call" /\ api = "Status"
    /\ conv' = [done |-> 1, variant |-> Status_from(args.raw)]
    /\ pc' = "converted"
    /\ UNCHANGED <<api, args, buf0, buf, made, parsed>>

\* status.into()
StatusInto ==
    /\ pc = "converted" /\ api = "Status"
    /\ conv' = [done |-> 2, variant |-> conv.variant, raw |-> Status_into(conv.variant)]
    /\ pc' = "done"
    /\ UNCHANGED <<api, args, buf0, buf, made, parsed>>

\* Packet::new(buf, kind, data), then the accessors of the returned view
PacketNew ==
    /\ pc = "call" /\ api = "Packet::new"
    /\ LET r == Packet_new(buf, args.kind, args.data) IN
          /\ buf' = r.buf
          /\ made' = IF r.ok THEN PacketFields(r.view) ELSE NoView
          /\ pc' = IF r.ok THEN "encoded" ELSE "panicked"
    /\ UNCHANGED <<api, args, buf0, parsed, conv>>

\* Packet::from_bytes over a received frame, or over the buffer new() wrote
PacketFromBytes ==
    /\ \/ pc = "call" /\ api = "Packet::from_bytes"
       \/ pc = "encoded" /\ api = "Packet::new"
    /\ LET r == Packet_from_bytes(buf) IN
          /\ buf' = r.buf
          /\ parsed' = IF r.ok THEN PacketFields(r.view) ELSE NoView
          /\ pc' = IF r.ok THEN "decoded" ELSE "panicked"
    /\ UNCHANGED <<api, args, buf0, made, conv>>

\* Request::new(buf, command, tag, data), then the accessors
RequestNew ==
    /\ pc = "call" /\ api = "Request::new"
    /\ LET r == Request_new(buf, args.command, args.tag, args.data) IN
          /\ buf' = r.buf
          /\ made' = IF r.ok THEN RequestFields(r.view) ELSE NoView
          /\ pc' = IF r.ok THEN "encoded" ELSE "panicked"
    /\ UNCHANGED <<api, args, buf0, parsed, conv>>

\* Request::from_bytes over a received buffer, or over the one new() wrote
RequestFromBytes ==
    /\ \/ pc = "call" /\ api = "Request::from_bytes"
       \/ pc = "encoded" /\ api = "Request::new"
    /\ LET r == Request_from_bytes(buf) IN
          /\ buf' = r.buf
          /\ parsed' = IF r.ok THEN RequestFields(r.view) ELSE NoView
          /\ pc' = IF r.ok THEN "decoded" ELSE "panicked"
    /\ UNCHANGED <<api, args, buf0, made, conv>>

\* Response::new(buf, tag, status, status_info, data), then the accessors
ResponseNew ==
    /\ pc = "call" /\ api = "Response::new"
    /\ LET r == Response_new(buf, args.tag, args.status, args.status_info, args.data) IN
          /\ buf' = r.buf
          /\ made' = IF r.ok THEN ResponseFields(r.view) ELSE NoView
          /\ pc' = IF r.ok THEN "encoded" ELSE "panicked"
    /\ UNCHANGED <<api, args, buf0, parsed, conv>>

\* Response::from_bytes over a received buffer, or over the one new() wrote
ResponseFromBytes ==
    /\ \/ pc = "call" /\ api = "Response::from_bytes"
       \/ pc = "encoded" /\ api = "Response::new"
    /\ LET r == Response_from_bytes(buf) IN
          /\ buf' = r.buf
          /\ parsed' = IF r.ok THEN ResponseFields(r.view) ELSE NoView
          /\ pc' = IF r.ok THEN "decoded" ELSE "panicked"
    /\ UNCHANGED <<api, args, buf0, made, conv>>

Next ==
    \/ CommandFrom
    \/ CommandInto
    \/ StatusFrom
    \/ StatusInto
    \/ PacketNew
    \/ PacketFromBytes
    \/ RequestNew
    \/ RequestFromBytes
    \/ ResponseNew
    \/ ResponseFromBytes

Spec == Init /\ [][Next]_vars

-----------------------------------------------------------------------------
(* The wire format's reference values, as the enum declarations give them. *)

\* the discriminants of enum Command
CommandCode(c) ==
    CASE c = BinInfo -> 1
      [] c = Info -> 2
      [] c = ResetIntoApp -> 3
      [] c = ResetIntoBootloader -> 4
      [] c = StartFlash -> 5
      [] c = WriteFlashPage -> 6
      [] c = ChecksumPages -> 7
      [] c = ReadWords -> 8
      [] c = WriteWords -> 9
      [] c = Dmesg -> 16
      [] OTHER -> c.value

FixedCodes == (1..9) \cup {16}

\* the discriminants of enum Status
StatusCode(st) ==
    CASE st = Sucess -> 0
      [] st = Unknown -> 1
      [] st = Error -> 2
      [] OTHER -> st.value

\* the commands and statuses the round-trip claims speak of
ClaimedCommand(c) == c \in NamedCommands \/ c.value \notin FixedCodes

ClaimedStatus(st) == st \in NamedStatuses \/ st.value >= 3

-----------------------------------------------------------------------------
(* Claims. *)

\* C1: for every raw 32-bit value v, Command::from(v) re-encoded with
\* Into<u32> is exactly v.
C1_CommandRoundTrip ==
    (api = "Command" /\ pc = "done") => conv.raw = args.raw

\* C2: a Request written by Request::new into a buffer of 8 + data.len()
\* bytes reports, through the returned view and through Request::from_bytes
\* over the same bytes, the command, tag, data and data length it was given
\* (c a named variant, or Other(raw) with raw no fixed code).
C2_RequestRoundTrip ==
    (/\ api = "Request::new" /\ pc # "call"
     /\ Len(buf0) = 8 + Len(args.data)
     /\ ClaimedCommand(args.command))
    => /\ made.ok
       /\ made.command = Val(args.command)
       /\ made.tag = Val(args.tag)
       /\ made.data = Val(args.data)
       /\ made.len = Val(Len(args.data))
       /\ pc # "panicked"
       /\ pc = "decoded" =>
             /\ parsed.ok
             /\ parsed.command = Val(args.command)
             /\ parsed.tag = Val(args.tag)
             /\ parsed.data = Val(args.data)
             /\ parsed.len = Val(Len(args.data))

\* C3: after a successful Request::new the buffer is, whatever it held
\* before, the command's code in little-endian, the tag in little-endian,
\* two zero reserved bytes and the data.
C3_RequestBytes ==
    (api = "Request::new" /\ pc = "encoded")
    => buf = << CommandCode(args.command) % 256,
                (CommandCode(args.command) \div 256) % 256,
                (CommandCode(args.command) \div 65536) % 256,
                (CommandCode(args.command) \div 16777216) % 256,
                args.tag % 256, args.tag \div 256, 0, 0 >> \o args.data

\* C4: Packet::new with a payload of at most 63 bytes and a buffer of
\* payload + 1 to 64 bytes writes the header kind_tag | len and the payload,
\* and the returned view and Packet::from_bytes over the written buffer both
\* report the kind and the payload, whatever the buffer held before.
C4_PacketRoundTrip ==
    (/\ api = "Packet::new" /\ pc # "call"
     /\ Len(args.data) <= 63
     /\ Len(args.data) + 1 <= Len(buf0)
     /\ Len(buf0) <= 64)
    => /\ made.ok
       /\ buf[1] = KindTag(args.kind) + Len(args.data)
       /\ SubSeq(buf, 2, 1 + Len(args.data)) = args.data
       /\ made.kind = Val(args.kind)
       /\ made.data = Val(args.data)
       /\ pc # "panicked"
       /\ pc = "decoded" =>
             /\ parsed.ok
             /\ parsed.kind = Val(args.kind)
             /\ parsed.data = Val(args.data)

C4_Witness ==
    /\ api = "Packet::new" /\ pc = "decoded"
    /\ args.kind = "StdErr"
    /\ Len(args.data) = 63 /\ Len(buf0) = 64
    /\ buf0[1] # buf[1]
    /\ parsed.data = Val(args.data)

\* C5: Packet::from_bytes over a frame of 1 to 64 bytes whose declared
\* length L = frame[0] & 0x3F fits (L + 1 <= len) yields a view of exactly
\* L + 1 bytes, whose kind is the one the top two bits select, whose data is
\* frame[1 .. 1+L] and whose len is L + 1.
C5_PacketDecode ==
    (/\ api = "Packet::from_bytes" /\ pc # "call"
     /\ 1 <= Len(buf0) /\ Len(buf0) <= 64
     /\ (buf0[1] % 64) + 1 <= Len(buf0))
    => LET L == buf0[1] % 64
           top == buf0[1] \div 64
       IN  /\ pc = "decoded"
           /\ parsed.ok
           /\ parsed.kind = Val(CASE top = 0 -> "CommandInner"
                                  [] top = 1 -> "CommandFinal"
                                  [] top = 2 -> "StdOut"
                                  [] top = 3 -> "StdErr")
           /\ parsed.data = Val(SubSeq(buf0, 2, 1 + L))
           /\ parsed.len = Val(L + 1)
           /\ parsed.view = SubSeq(buf0, 1, L + 1)

C5_Witness ==
    /\ api = "Packet::from_bytes" /\ pc = "decoded"
    /\ buf0 = << 131, 1, 2, 3, 171, 255, 255, 255 >>
    /\ parsed.kind = Val("StdOut")
    /\ parsed.data = Val(<< 1, 2, 3 >>)
    /\ parsed.len = Val(4)

\* Packet::from_bytes has been called on buf
PacketFromBytesCalled ==
    \/ api = "Packet::from_bytes" /\ pc # "call"
    \/ api = "Packet::new" /\ made.ok /\ pc \in {"decoded", "panicked"}

\* C6: Packet::from_bytes fails, returning no view, on a frame of length 0
\* or more than 64 and on a frame shorter than its declared length plus one;
\* a view it returns lies within the frame, and so does its data.
C6_PacketReject ==
    PacketFromBytesCalled
    => /\ (\/ Len(buf) = 0
           \/ Len(buf) > 64
           \/ (buf[1] % 64) + 1 > Len(buf))
          => (pc = "panicked" /\ parsed = NoView)
       /\ pc = "decoded" =>
             /\ parsed.ok
             /\ Len(parsed.view) <= Len(buf)
             /\ parsed.view = SubSeq(buf, 1, Len(parsed.view))
             /\ parsed.data.ok
             /\ parsed.data.val = SubSeq(buf, 2, Len(parsed.view))

C6_Witness ==
    /\ api = "Packet::from_bytes" /\ pc = "panicked"
    /\ Len(buf0) >= 1 /\ Len(buf0) <= 64
    /\ (buf0[1] % 64) + 1 > Len(buf0)
    /\ parsed = NoView

\* C7: Response::new into a buffer of 4 + data.len() bytes writes the tag
\* in little-endian, the status code, status_info and the data, and the
\* returned view and Response::from_bytes over the same bytes report the
\* tag, status, status_info and data encoded (status Success, Unknown, Error
\* or Other(raw) with raw >= 3).
C7_ResponseRoundTrip ==
    (/\ api = "Response::new" /\ pc # "call"
     /\ Len(buf0) = 4 + Len(args.data)
     /\ ClaimedStatus(args.status))
    => /\ made.ok
       /\ buf = << args.tag % 256, args.tag \div 256,
                   StatusCode(args.status), args.status_info >> \o args.data
       /\ made.tag = Val(args.tag)
       /\ made.status = Val(args.status)
       /\ made.status_info = Val(args.status_info)
       /\ made.data = Val(args.data)
       /\ pc # "panicked"
       /\ pc = "decoded" =>
             /\ parsed.ok
             /\ parsed.tag = Val(args.tag)
             /\ parsed.status = Val(args.status)
             /\ parsed.status_info = Val(args.status_info)
             /\ parsed.data = Val(args.data)

C7_Witness ==
    /\ api = "Response::new" /\ pc = "decoded"
    /\ args = [tag |-> 5, status |-> Error, status_info |-> 7, data |-> << 170, 187 >>]
    /\ buf0 # buf
    /\ buf = << 5, 0, 2, 7, 170, 187 >>
    /\ parsed.status = Val(Error)

\* C8: for every byte s, Status::from(s) re-encoded with Into<u8> is s;
\* 0, 1 and 2 decode to Success, Unknown and Error, any other byte to
\* Other(s).
C8_StatusRoundTrip ==
    (api = "Status" /\ pc # "call")
    => /\ conv.variant = (CASE args.raw = 0 -> Sucess
                            [] args.raw = 1 -> Unknown
                            [] args.raw = 2 -> Error
                            [] OTHER -> Other(args.raw))
       /\ pc = "done" => conv.raw = args.raw

C8_Witness ==
    /\ api = "Status" /\ pc = "done"
    /\ args.raw = 2
    /\ conv.variant = Error
    /\ conv.raw = 2

\* C9: an encoder whose size precondition fails (Request::new: buffer not
\* 8 + data.len(); Response::new: buffer not 4 + data.len(); Packet::new:
\* more than 63 bytes of data or a buffer shorter than data.len() + 1)
\* fails, returns no view and leaves the buffer byte for byte as it was.
C9_EncodeReject ==
    (/\ pc # "call"
     /\ \/ api = "Request::new" /\ Len(buf0) # 8 + Len(args.data)
        \/ api = "Response::new" /\ Len(buf0) # 4 + Len(args.data)
        \/ api = "Packet::new" /\ (Len(args.data) > 63 \/ Len(buf0) < Len(args.data) + 1))
    => /\ pc = "panicked"
       /\ made = NoView
       /\ parsed = NoView
       /\ buf = buf0

C9_Witness ==
    /\ api = "Request::new" /\ pc = "panicked"
    /\ Len(buf0) = 8 + Len(args.data) + 1
    /\ Len(args.data) > 0
    /\ buf = buf0
    /\ made = NoView

\* C10: Request::from_bytes fails on a buffer shorter than 8 bytes and
\* Response::from_bytes on one shorter than 4; on a view either returns,
\* every accessor succeeds, and data() is empty when the buffer is exactly
\* the header.
C10_HeaderReject ==
    /\ (api = "Request::from_bytes" /\ pc # "call")
       => /\ Len(buf0) < 8 => (pc = "panicked" /\ parsed = NoView)
          /\ pc = "decoded" =>
                /\ parsed.command.ok /\ parsed.tag.ok
                /\ parsed.data.ok /\ parsed.len.ok
                /\ parsed.data.val = SubSeq(buf0, 9, Len(buf0))
                /\ Len(buf0) = 8 => parsed.data = Val(<< >>)
    /\ (api = "Response::from_bytes" /\ pc # "call")
       => /\ Len(buf0) < 4 => (pc = "panicked" /\ parsed = NoView)
          /\ pc = "decoded" =>
                /\ parsed.tag.ok /\ parsed.status.ok
                /\ parsed.status_info.ok /\ parsed.data.ok
                /\ parsed.data.val = SubSeq(buf0, 5, Len(buf0))
                /\ Len(buf0) = 4 => parsed.data = Val(<< >>)

C10_Witness ==
    /\ api = "Request::from_bytes" /\ pc = "panicked"
    /\ Len(buf0) = 7
    /\ parsed = NoView

=============================================================================
